---- MODULE Spec2Model ----
(***************************************************************************)
(* persona-lens: the LLM orchestration and resilience layer.               *)
(*                                                                         *)
(* EnhancedLLMClient (src/src/lib/api/index.ts) keeps a request queue, a   *)
(* history of dispatch timestamps and a processing flag.  A submission     *)
(* (generateCompletion) pushes a queue item and calls processQueue, whose  *)
(* drain loop admits items under a sliding per-minute and per-hour quota,  *)
(* runs each item's operation under executeWithRetry and then sleeps a     *)
(* fixed delay.  JavaScript runs each handler to its next await, so every  *)
(* action below is one run-to-completion segment of the code: the code     *)
(* between two awaits.                                                     *)
(*                                                                         *)
(* Time is the value of Date.now() in milliseconds.  It moves either to    *)
(* the next pending timer deadline (TimerJump) or by a coarse step         *)
(* (Elapse); a timer fires at or after its deadline, never before.         *)
(***************************************************************************)
EXTENDS Integers, Sequences, FiniteSets, TLC

VARIABLES
    now,             \* Date.now()
    requestQueue,    \* EnhancedLLMClient.requestQueue: ids of the queued items, front first
    requestHistory,  \* EnhancedLLMClient.requestHistory: dispatch timestamps
    processing,      \* EnhancedLLMClient.processing
    loops,           \* the processQueue invocations that have not returned, by slot
    nextId,          \* id the next submitted operation gets (ids follow submission order)
    burst,           \* operations submitted at the instant of the first dispatch
    lastEnqueuePc,   \* where the drain loop was at the latest submission
    settled,         \* per operation: how its promise was settled
    dispatchLog,     \* history of all dispatches, never pruned: <<[id, at], ...>>
    calls,           \* per operation: invocations of the wrapped operation by executeWithRetry
    sleeps,          \* per operation: backoff sleeps started by executeWithRetry
    mode,            \* which operation executeWithRetry wraps: "client" or "generic"
    ro,              \* one run of PersonaGenerationService.retryOperation
    fb,              \* one run of EnhancedLLMClient.generatePersonaInsights
    gp,              \* one run of PersonaGenerationService.generatePersona
    wire,            \* one request object and its sends through LLMClient.generateCompletion
    probe,           \* one run of testConnections and one of testService
    calc             \* one computation of a delay or of a confidence score

vars == <<now, requestQueue, requestHistory, processing, loops, nextId, burst,
          lastEnqueuePc, settled, dispatchLog, calls, sleeps, mode, calc, ro, fb, gp, wire, probe>>

(***************************************************************************)
(* Bounds of the model.                                                    *)
(***************************************************************************)
MaxOps == 4              \* operations submitted to the client in one behaviour
MaxGenericOps == 2       \* the same, when the wrapped operation is arbitrary
MaxRetryAttempts == 3    \* largest maxRetries handed to retryOperation
MaxLoops == 2            \* slots for concurrently active processQueue invocations
MaxTime == 120000        \* Elapse stops here; timer jumps do not
MaxHarnessTime == 60000  \* the same, when the retry wrappers run on their own
requestsPerMinute == 2   \* rateLimitConfig.requestsPerMinute (configurable)
requestsPerHour == 3     \* rateLimitConfig.requestsPerHour (configurable)
maxRetries == 1          \* retryConfig.maxRetries (configurable)

(***************************************************************************)
(* Program constants.                                                      *)
(***************************************************************************)
MinuteMs == 60000
HourMs == 3600000
DispatchDelayMs == 100
baseDelay == 1000
maxDelay == 30000
exponentialBase == 2
JitterDivisor == 10      \* jitterFactor 0.1: jitter < baseDelay / 10
serviceBaseDelay == 1000 \* PersonaGenerationService.baseDelay
serviceJitterMs == 1000  \* Math.random() * 1000

OpIds == 1..MaxOps
LoopIds == 1..MaxLoops

RECURSIVE SeqMin(_)
SeqMin(s) == IF Len(s) = 1 THEN s[1]
             ELSE LET m == SeqMin(Tail(s)) IN IF s[1] < m THEN s[1] ELSE m

RECURSIVE Pow(_, _)
Pow(b, n) == IF n = 0 THEN 1 ELSE b * Pow(b, n - 1)

Min2(a, b) == IF a < b THEN a ELSE b

(***************************************************************************)
(* getRateLimitStatus                                                      *)
(***************************************************************************)
\* requestHistory.filter(time => time > oneHourAgo)
PruneHistory(h, t) == SelectSeq(h, LAMBDA x : x > t - HourMs)

\* requestHistory.filter(time => time > oneMinuteAgo)
InLastMinute(h, t) == SelectSeq(h, LAMBDA x : x > t - MinuteMs)

\* mutants of canMakeRequest: the quota compared with <=, the per-minute quota left out
canMakeRequestOffByOne(h, t) ==
    /\ Len(InLastMinute(h, t)) <= requestsPerMinute
    /\ Len(h) <= requestsPerHour

canMakeRequestHourOnly(h, t) == Len(h) < requestsPerHour

\* canMakeRequest, on the pruned history
canMakeRequest(h, t) ==
    /\ Len(InLastMinute(h, t)) < requestsPerMinute
    /\ Len(h) < requestsPerHour

\* nextAvailableTime, computed only when canMakeRequest is false
nextAvailableTime(h, t) ==
    IF Len(InLastMinute(h, t)) >= requestsPerMinute
    THEN SeqMin(InLastMinute(h, t)) + MinuteMs
    ELSE SeqMin(h) + HourMs

(***************************************************************************)
(* State of one processQueue invocation.                                   *)
(*   idle       the slot holds no invocation                               *)
(*   waitQuota  awaiting setTimeout(waitTime)                              *)
(*   call       awaiting the operation invoked by executeWithRetry         *)
(*   backoff    awaiting executeWithRetry's setTimeout(delay)              *)
(*   delay      awaiting the setTimeout(100) that follows a dispatch       *)
(***************************************************************************)
NoError == [attempt |-> -1, code |-> "none", wrapped |-> FALSE]

IdleLoop == [pc |-> "idle", item |-> 0, wake |-> 0, attempt |-> 0, lastError |-> NoError]

Pending == [kind |-> "pending", success |-> FALSE, attempt |-> 0, error |-> NoError]

ActiveLoops == {l \in LoopIds : loops[l].pc # "idle"}

FreeSlot == CHOOSE l \in LoopIds : loops[l].pc = "idle" /\ \A k \in LoopIds : loops[k].pc = "idle" => l <= k

(***************************************************************************)
(* The operation wrapped by executeWithRetry.                              *)
(*                                                                         *)
(* In the program it is LLMClient.generateCompletion (mode "client"):      *)
(* makeRequest throws an LLMAPIError on a transport failure or a non-2xx   *)
(* response, and generateCompletion catches every error and returns        *)
(* {success: false}.  Mode "generic" applies executeWithRetry to an        *)
(* arbitrary operation, which may return or throw.                         *)
(***************************************************************************)
FetchOutcomes == {"ok", "http_error", "network_error"}

Returned(ok, c) == [threw |-> FALSE, success |-> ok, isLLMAPIError |-> FALSE, code |-> c]
Thrown(llm, c) == [threw |-> TRUE, success |-> FALSE, isLLMAPIError |-> llm, code |-> c]

\* LLMClient.makeRequest
makeRequest(f) ==
    CASE f = "ok" -> Returned(TRUE, "none")
      [] f = "http_error" -> Thrown(TRUE, "HTTP_500")
      [] OTHER -> Thrown(TRUE, "NETWORK_ERROR")

\* LLMClient.generateCompletion: try { makeRequest } catch { return {success: false} }
LLMClientGenerateCompletion(f) ==
    LET r == makeRequest(f)
    IN IF r.threw THEN Returned(FALSE, r.code) ELSE Returned(TRUE, "none")

GenericOutcomes ==
    { Returned(TRUE, "none"),
      Thrown(FALSE, "OTHER"),
      Thrown(TRUE, "NETWORK_ERROR"),
      Thrown(TRUE, "INVALID_API_KEY"),
      Thrown(TRUE, "INSUFFICIENT_QUOTA") }

\* what one invocation of the wrapped operation can produce
OperationResults ==
    IF mode = "client" THEN {LLMClientGenerateCompletion(f) : f \in FetchOutcomes}
    ELSE GenericOutcomes

(***************************************************************************)
(* executeWithRetry                                                        *)
(***************************************************************************)
\* mutant of nonRetryable: the quota code is forgotten
nonRetryableKeyOnly(r) == r.isLLMAPIError /\ r.code = "INVALID_API_KEY"

\* error instanceof LLMAPIError && (code === 'INVALID_API_KEY' || code === 'INSUFFICIENT_QUOTA')
nonRetryable(r) ==
    r.isLLMAPIError /\ r.code \in {"INVALID_API_KEY", "INSUFFICIENT_QUOTA"}

\* mutant of lastAttempt: one attempt too many
lastAttemptLate(attempt) == attempt = maxRetries + 1

\* attempt === this.retryConfig.maxRetries
lastAttempt(attempt) == attempt = maxRetries

\* mutant of catchError: the first error is kept
catchErrorFirst(prev, err) == IF prev.attempt = -1 THEN err ELSE prev

\* lastError = error
catchError(prev, err) == err

\* mutant of backoffBase: the delay without Math.min(..., maxDelay)
backoffBaseUncapped(attempt) == baseDelay * Pow(exponentialBase, attempt)

\* Math.min(baseDelay * Math.pow(exponentialBase, attempt), maxDelay)
backoffBase(attempt) == Min2(baseDelay * Pow(exponentialBase, attempt), maxDelay)

\* baseDelay * jitterFactor * Math.random(), Math.random() in [0, 1)
JitterChoices(d) == {0, (d \div JitterDivisor) - 1}

(***************************************************************************)
(* processQueue                                                            *)
(***************************************************************************)
\* mutant of alreadyProcessing: processQueue without its guard
alreadyProcessingUnguarded == FALSE

\* if (this.processing) return;
alreadyProcessing == processing

\* mutant of enqueue: unshift instead of push
enqueueFront(q, id) == <<id>> \o q

\* this.requestQueue.push(item)
enqueue(q, id) == Append(q, id)

\* this.requestQueue.shift(): the item taken and the queue left
shiftItem(q) == Head(q)
shiftRest(q) == Tail(q)

\* while (this.requestQueue.length > 0)
loopCondition(q) == Len(q) > 0

\* mutant of flagAfterDrain: the flag is not reset
flagAfterDrainStuck == TRUE

\* this.processing = false, once the loop is left
flagAfterDrain == FALSE

\* mutant of catchesFailure: no try/catch around the dispatched operation
catchesFailureNever(threw) == ~threw

\* try { ... await queueItem.request() ... } catch (error) { queueItem.reject(error) }:
\* whether the loop goes on after the operation has settled
catchesFailure(threw) == TRUE

\* mutant of historyOnDispatch: the dispatch is not recorded
historyOnDispatchSkipped(h, t) == h

\* this.requestHistory.push(Date.now()), before the item's request is invoked
historyOnDispatch(h, t) == Append(h, t)

\* The loop from the top of the while to its next await (or its return), for
\* the invocation in slot l, with queue q.
LoopStep(l, q) ==
    IF ~loopCondition(q)
    THEN /\ processing' = flagAfterDrain
         /\ loops' = [loops EXCEPT ![l] = IdleLoop]
         /\ requestQueue' = q
         /\ UNCHANGED <<requestHistory, dispatchLog, calls>>
    ELSE LET h == PruneHistory(requestHistory, now)
         IN IF ~canMakeRequest(h, now)
            THEN /\ processing' = TRUE
                 /\ loops' = [loops EXCEPT ![l] =
                        [IdleLoop EXCEPT !.pc = "waitQuota",
                                         !.wake = nextAvailableTime(h, now)]]
                 /\ requestHistory' = h
                 /\ requestQueue' = q
                 /\ UNCHANGED <<dispatchLog, calls>>
            ELSE /\ processing' = TRUE
                 /\ requestQueue' = shiftRest(q)
                 /\ requestHistory' = historyOnDispatch(h, now)
                 /\ dispatchLog' = Append(dispatchLog, [id |-> shiftItem(q), at |-> now])
                 /\ calls' = [calls EXCEPT ![shiftItem(q)] = 1]
                 /\ loops' = [loops EXCEPT ![l] =
                        [IdleLoop EXCEPT !.pc = "call", !.item = shiftItem(q)]]

\* generateCompletion: push the item, then processQueue()
Submit ==
    /\ mode \in {"client", "generic"}
    /\ nextId <= (IF mode = "client" THEN MaxOps ELSE MaxGenericOps)
    /\ nextId' = nextId + 1
    /\ burst' = IF dispatchLog = <<>> \/ dispatchLog[1].at = now THEN burst + 1 ELSE burst
    /\ lastEnqueuePc' = IF ActiveLoops = {} THEN "idle"
                        ELSE loops[CHOOSE l \in ActiveLoops : TRUE].pc
    /\ IF alreadyProcessing
       THEN /\ requestQueue' = enqueue(requestQueue, nextId)
            /\ UNCHANGED <<requestHistory, processing, loops, dispatchLog, calls>>
       ELSE /\ \E l \in LoopIds : loops[l].pc = "idle"
            /\ LoopStep(FreeSlot, enqueue(requestQueue, nextId))
    /\ UNCHANGED <<now, settled, sleeps, mode, calc, ro, fb, gp, wire, probe>>

\* mutant of dispatchDelayUntil: no delay after a dispatch
dispatchDelayNone(t) == t

\* await new Promise(resolve => setTimeout(resolve, 100)): when the timer is due
dispatchDelayUntil(t) == t + DispatchDelayMs

\* The awaited operation of slot l settles with result r: executeWithRetry
\* returns, rethrows or starts a backoff sleep; on a return or a throw
\* processQueue settles the item's promise and starts the 100 ms delay.
OperationDone(l, r) ==
    /\ loops[l].pc = "call"
    /\ r \in OperationResults
    /\ LET id == loops[l].item
           a == loops[l].attempt
           error == [attempt |-> a, code |-> r.code, wrapped |-> FALSE]
           lastError == catchError(loops[l].lastError, error)
           afterDispatch == [IdleLoop EXCEPT !.pc = "delay", !.wake = dispatchDelayUntil(now)]
       IN IF ~r.threw
          THEN \* return await operation(); queueItem.resolve(result)
               /\ settled' = [settled EXCEPT ![id] =
                      [kind |-> "resolved", success |-> r.success, attempt |-> a,
                       error |-> IF r.success THEN NoError ELSE error]]
               /\ loops' = [loops EXCEPT ![l] = afterDispatch]
               /\ UNCHANGED <<sleeps, processing>>
          ELSE IF nonRetryable(r) \/ lastAttempt(a)
          THEN \* throw error / throw lastError; queueItem.reject(error)
               /\ IF catchesFailure(TRUE)
                  THEN /\ settled' = [settled EXCEPT ![id] =
                              [kind |-> "rejected", success |-> FALSE, attempt |-> a,
                               error |-> IF nonRetryable(r) THEN error ELSE lastError]]
                       /\ loops' = [loops EXCEPT ![l] = afterDispatch]
                  ELSE /\ loops' = [loops EXCEPT ![l] = IdleLoop]
                       /\ UNCHANGED settled
               /\ UNCHANGED <<sleeps, processing>>
          ELSE \* await new Promise(resolve => setTimeout(resolve, delay))
               /\ \E j \in JitterChoices(backoffBase(a)) :
                     loops' = [loops EXCEPT ![l] =
                        [@ EXCEPT !.pc = "backoff", !.lastError = lastError,
                                  !.wake = now + backoffBase(a) + j]]
               /\ sleeps' = [sleeps EXCEPT ![id] = @ + 1]
               /\ UNCHANGED <<settled, processing>>
    /\ UNCHANGED <<now, requestQueue, requestHistory, nextId, burst, lastEnqueuePc,
                   dispatchLog, calls, mode, calc, ro, fb, gp, wire, probe>>

\* A timer of slot l fires: the quota wait and the inter-dispatch delay go
\* back to the top of the while loop, the backoff sleep to the next attempt.
TimerFires(l) ==
    /\ loops[l].pc \in {"waitQuota", "delay", "backoff"}
    /\ now >= loops[l].wake
    /\ IF loops[l].pc = "backoff"
       THEN /\ loops' = [loops EXCEPT ![l] =
                   [@ EXCEPT !.pc = "call", !.wake = 0, !.attempt = @ + 1]]
            /\ calls' = [calls EXCEPT ![loops[l].item] = @ + 1]
            /\ UNCHANGED <<requestQueue, requestHistory, processing, dispatchLog>>
       ELSE LoopStep(l, requestQueue)
    /\ UNCHANGED <<now, nextId, burst, lastEnqueuePc, settled, sleeps, mode, calc, ro, fb, gp, wire, probe>>

(***************************************************************************)
(* PersonaGenerationService.retryOperation, applied to one operation.      *)
(* Its callers (generateBasePersona, enhancePersonaWithQloo,               *)
(* validatePersona) pass operations that return a value or throw an Error. *)
(***************************************************************************)
RoIdle == [pc |-> "idle", attempt |-> 0, maxRetries |-> 0, calls |-> 0, sleeps |-> 0,
           wake |-> 0, lastError |-> NoError, thrown |-> NoError]

RoOutcomes ==
    { [threw |-> FALSE, isError |-> FALSE, code |-> "none"],
      [threw |-> TRUE, isError |-> TRUE, code |-> "LLM_FAILED"],
      [threw |-> TRUE, isError |-> TRUE, code |-> "INVALID_JSON"] }

\* lastError = error instanceof Error ? error : new Error(String(error))
roCatchError(r, attempt) ==
    [attempt |-> attempt, code |-> r.code, wrapped |-> ~r.isError]

\* delay * Math.pow(2, attempt)
roBackoffBase(delay, attempt) == delay * Pow(2, attempt)

\* Math.random() * 1000
RoJitterChoices == {0, serviceJitterMs - 1}

\* retryOperation(operation, m): the first invocation of the operation
RoStart(m) ==
    /\ mode = "retryOperation"
    /\ ro.pc = "idle"
    /\ ro' = [RoIdle EXCEPT !.pc = "call", !.maxRetries = m, !.calls = 1]
    /\ UNCHANGED <<now, requestQueue, requestHistory, processing, loops, nextId,
                   burst, lastEnqueuePc, settled, dispatchLog, calls, sleeps, mode, calc, fb, gp, wire, probe>>

\* the awaited operation settles with result r
RoOperationDone(r) ==
    /\ mode = "retryOperation"
    /\ ro.pc = "call"
    /\ IF ~r.threw
       THEN ro' = [ro EXCEPT !.pc = "returned"]
       ELSE IF ro.attempt = ro.maxRetries
       THEN ro' = [ro EXCEPT !.pc = "thrown",
                             !.lastError = roCatchError(r, ro.attempt),
                             !.thrown = roCatchError(r, ro.attempt)]
       ELSE \E j \in RoJitterChoices :
               ro' = [ro EXCEPT !.pc = "backoff",
                                !.lastError = roCatchError(r, ro.attempt),
                                !.sleeps = @ + 1,
                                !.wake = now + roBackoffBase(serviceBaseDelay, ro.attempt) + j]
    /\ UNCHANGED <<now, requestQueue, requestHistory, processing, loops, nextId,
                   burst, lastEnqueuePc, settled, dispatchLog, calls, sleeps, mode, calc, fb, gp, wire, probe>>

\* the backoff sleep ends: the next attempt
RoTimerFires ==
    /\ ro.pc = "backoff"
    /\ now >= ro.wake
    /\ ro' = [ro EXCEPT !.pc = "call", !.wake = 0, !.attempt = @ + 1, !.calls = @ + 1]
    /\ UNCHANGED <<now, requestQueue, requestHistory, processing, loops, nextId,
                   burst, lastEnqueuePc, settled, dispatchLog, calls, sleeps, mode, calc, fb, gp, wire, probe>>

(***************************************************************************)
(* EnhancedLLMClient.generatePersonaInsights: provider fallback.           *)
(*                                                                         *)
(* The loop calls LLMClient.generatePersonaInsights of each provider in    *)
(* turn, directly: neither the queue nor executeWithRetry is involved.     *)
(* An LLMClient is constructed whether or not its API key is set (the      *)
(* constructor only logs), and getClient returns it either way.  The       *)
(* shipped LLMClient.generatePersonaInsights never throws; with            *)
(* fb.stubbed the provider clients are stand-ins that may also throw,      *)
(* which is what the catch of the loop is written for.                     *)
(***************************************************************************)
Providers == {"gemini", "openai", "anthropic"}

FbNoError == [provider |-> "none", code |-> "none", thrown |-> FALSE]

FbNoResult == [success |-> FALSE, provider |-> "none", embeds |-> FbNoError]

FbIdle == [pc |-> "idle", keys |-> Providers, stubbed |-> FALSE, pref |-> "none",
           providers |-> <<>>, idx |-> 0, log |-> <<>>, outcomes |-> <<>>,
           calls |-> [p \in Providers |-> 0], lastError |-> FbNoError,
           result |-> FbNoResult]

\* mutant of providersList: the preferred provider is not skipped
providersListNoSkip(pref) == <<pref, "gemini", "openai", "anthropic">>

\* providers = [preferredProvider]; push gemini, openai, anthropic unless preferred
providersList(pref) ==
    <<pref>> \o (IF pref # "gemini" THEN <<"gemini">> ELSE <<>>)
             \o (IF pref # "openai" THEN <<"openai">> ELSE <<>>)
             \o (IF pref # "anthropic" THEN <<"anthropic">> ELSE <<>>)

\* LLMClient.generatePersonaInsights: success with the content, or a failure
\* carrying response.error; its own try/catch turns any throw into a failure
LLMClientGeneratePersonaInsights(f) ==
    LET response == LLMClientGenerateCompletion(f)
    IN IF response.success THEN Returned(TRUE, "none") ELSE Returned(FALSE, response.code)

\* what client.generatePersonaInsights(...) can produce in the loop
FbProviderResults ==
    {LLMClientGeneratePersonaInsights(f) : f \in FetchOutcomes}
    \cup (IF fb.stubbed THEN {Thrown(FALSE, "OTHER")} ELSE {})

\* mutant of returnsOnSuccess: the loop never returns early
returnsOnSuccessNever(r) == FALSE

\* if (result.success) return result;
returnsOnSuccess(r) == r.success

\* generatePersonaInsights(..., preferredProvider): build the list, call the first provider
FbStart(pref) ==
    /\ mode = "fallback"
    /\ fb.pc = "idle"
    /\ LET providers == providersList(pref)
       IN fb' = [fb EXCEPT !.pc = "call", !.pref = pref, !.providers = providers,
                           !.idx = 1, !.log = <<providers[1]>>,
                           !.calls = [@ EXCEPT ![providers[1]] = @ + 1]]
    /\ UNCHANGED <<now, requestQueue, requestHistory, processing, loops, nextId, burst,
                   lastEnqueuePc, settled, dispatchLog, calls, sleeps, mode, calc, ro, gp, wire, probe>>

\* the awaited provider call settles with r: return it, or note the error and
\* go on to the next provider, or return the failure once the list is exhausted
FbProviderDone(r) ==
    /\ mode = "fallback"
    /\ fb.pc = "call"
    /\ r \in FbProviderResults
    /\ LET p == fb.providers[fb.idx]
           outcomes == Append(fb.outcomes, [ok |-> ~r.threw /\ r.success, code |-> r.code,
                                            thrown |-> r.threw])
           \* lastError = result.error / lastError = error
           lastError == [provider |-> p, code |-> r.code, thrown |-> r.threw]
       IN IF ~r.threw /\ returnsOnSuccess(r)
          THEN fb' = [fb EXCEPT !.pc = "done", !.outcomes = outcomes,
                         !.result = [success |-> TRUE, provider |-> p, embeds |-> FbNoError]]
          ELSE IF fb.idx < Len(fb.providers)
          THEN LET q == fb.providers[fb.idx + 1]
               IN fb' = [fb EXCEPT !.idx = @ + 1, !.outcomes = outcomes,
                              !.lastError = lastError, !.log = Append(@, q),
                              !.calls = [@ EXCEPT ![q] = @ + 1]]
          ELSE \* error: `All providers failed. Last error: ${lastError}`
               fb' = [fb EXCEPT !.pc = "done", !.outcomes = outcomes,
                         !.lastError = lastError,
                         !.result = [success |-> FALSE, provider |-> "none",
                                     embeds |-> lastError]]
    /\ UNCHANGED <<now, requestQueue, requestHistory, processing, loops, nextId, burst,
                   lastEnqueuePc, settled, dispatchLog, calls, sleeps, mode, calc, ro, gp, wire, probe>>

(***************************************************************************)
(* PersonaGenerationService.generatePersona: the generation pipeline.      *)
(*                                                                         *)
(* Base generation, enhancement and validation each run one operation      *)
(* under retryOperation (state ro); the operation calls the raw gemini     *)
(* LLMClient.generateCompletion, which returns {success: false} instead of *)
(* throwing, and turns a failure or unusable content into a thrown Error.  *)
(* The LLM's answer is an input: it is drawn from the kinds of content the *)
(* parsing code tells apart.                                               *)
(*                                                                         *)
(* The QlooService of this repository has no generatePersonaInsights       *)
(* method, so the call in gatherQlooInsights throws a TypeError every      *)
(* time (service "shipped"); with service "stub" the enrichment service is *)
(* a stand-in that may throw, return nothing or return insights.           *)
(***************************************************************************)
serviceMaxRetries == 3       \* PersonaGenerationService.maxRetries
enhanceRetries == 2          \* retryOperation(..., 2) in enhancePersonaWithQloo
validateRetries == 2         \* retryOperation(..., 2) in validatePersona
defaultValidationScore == 7  \* overall_score || 7, { overall_score: 7 }
baseScore == 70              \* let score = 70
Undefined == -1              \* let validationScore = undefined

GpNoResult == [success |-> FALSE, persona |-> "absent", error |-> "none",
               hasMetadata |-> FALSE,
               metadata |-> [qloo_insights_included |-> FALSE,
                             validation_score |-> Undefined, retry_attempts |-> 0],
               confidence_score |-> 0,
               \* of the returned persona: whose values its id, confidence_score,
               \* qloo_insights and generation_timestamp are, the LLM-produced
               \* persona having had fields of these names (TRUE) or not (FALSE),
               \* and its qloo_insights
               reservedFrom |-> [inPersona \in BOOLEAN |-> "none"],
               qloo_insights |-> "null"]

GpIdle == [pc |-> "idle", handler |-> "none", bodyReadable |-> TRUE,
           service |-> "shipped", includeQloo |-> FALSE, validate |-> FALSE,
           options |-> [retryAttempts |-> 0],
           maxRetries |-> 0, retryAttempts |-> 0, persona |-> "none",
           qlooInsights |-> "null", validationScore |-> Undefined,
           \* history, not program state:
           retries |-> 0, baseContent |-> "none", qlooOutcome |-> "none",
           enhanceStarted |-> FALSE, failures |-> {}, personaBeforeValidation |-> "none",
           result |-> GpNoResult]

Returns(d) == [threw |-> FALSE, code |-> "none", data |-> d]
Throws(c) == [threw |-> TRUE, code |-> c, data |-> "undefined"]

\* what the LLM can answer to the base generation prompt
BaseContents ==
    { "llm_failed",         \* response.success is false
      "llm_auth_failed",    \* the same, the provider having refused the key or the quota
      "empty",              \* no content in the first choice
      "json_persona",       \* a JSON object with a top-level persona key
      "json_bare",          \* a JSON object without one
      "wrapped_persona",    \* text around {...}, the object having a persona key
      "wrapped_bare",       \* text around {...}, the object having none
      "braces_unparsable",  \* text with {...} that is not JSON
      "no_braces" }         \* text without {...}

\* the operation of generateBasePersona
baseOperation(c) ==
    CASE c = "llm_failed" -> Throws("LLM_FAILED")              \* new Error(response.error)
      [] c = "llm_auth_failed" -> Throws("LLM_AUTH_FAILED")    \* new Error(response.error)
      [] c = "empty" -> Throws("NO_CONTENT")
      [] c = "json_persona" -> Returns("persona")       \* data: personaData.persona
      [] c = "json_bare" -> Returns("undefined")        \* data: personaData.persona
      [] c = "wrapped_persona" -> Returns("persona")    \* personaData.persona || personaData
      [] c = "wrapped_bare" -> Returns("bare")          \* personaData.persona || personaData
      [] c = "braces_unparsable" -> Throws("PARSE_FAILED")
      [] OTHER -> Throws("INVALID_JSON")

\* mutant of baseFailed: the data is not looked at
baseFailedSuccessOnly(d) == FALSE

\* if (!basePersona.success || !basePersona.data), success being true on every return
baseFailed(d) == d = "undefined"

baseFailureError == "Failed to generate base persona"

EnhanceContents == {"llm_failed", "empty", "json", "unparsable"}

\* mutant of enhanceOperation: what was answered is returned, parsed or not
enhanceOperationNoFallback(c, persona) ==
    CASE c = "llm_failed" -> Throws("LLM_FAILED")
      [] c = "empty" -> Throws("NO_CONTENT")
      [] OTHER -> Returns("enhanced")

\* the operation of enhancePersonaWithQloo, persona being the one to enhance
enhanceOperation(c, persona) ==
    CASE c = "llm_failed" -> Throws("LLM_FAILED")
      [] c = "empty" -> Throws("NO_CONTENT")
      [] c = "json" -> Returns("enhanced")              \* enhancedData.persona || enhancedData
      [] OTHER -> Returns(persona)                      \* fallback to the original persona

\* validation.overall_score in the answer; 0: absent or zero; the scale is 1..10,
\* which the code does not enforce
ValidationScores == {-20, 0, 4, 9, 15}

ValidateContents ==
    {[kind |-> k, score |-> 0, improved |-> FALSE] : k \in {"llm_failed", "empty", "unparsable"}}
    \cup {[kind |-> "json", score |-> sc, improved |-> i] : sc \in ValidationScores, i \in BOOLEAN}

\* the operation of validatePersona
validateOperation(c) ==
    CASE c.kind = "llm_failed" -> Throws("LLM_FAILED")
      [] c.kind = "empty" -> Throws("NO_CONTENT")
      [] c.kind = "json" ->
            Returns([overall_score |-> IF c.score # 0 THEN c.score ELSE defaultValidationScore,
                     enhanced_persona |-> IF c.improved THEN "improved" ELSE "undefined"])
      [] OTHER -> Returns([overall_score |-> defaultValidationScore,
                           enhanced_persona |-> "undefined"])

\* what this.qlooService.generatePersonaInsights(...) can do
QlooOutcomes ==
    IF gp.service = "shipped" THEN {"throws"} ELSE {"throws", "null", "insights"}

\* gatherQlooInsights: try { return insights } catch { return null }
gatherQlooInsights(q) == IF q = "insights" THEN "insights" ELSE "null"

\* mutant of hasInsights: the enhancement is issued whatever was fetched
hasInsightsAlways(q) == TRUE

\* if (qlooInsights)
hasInsights(q) == q # "null"

\* mutant of catchesStageFailure: enhancement and validation without their try/catch
catchesStageFailureNever == FALSE

\* try { ... } catch (error) { console.warn(...) } around steps 2 and 3
catchesStageFailure == TRUE

\* points for completeness of the persona: 10 + 5 + 5 + 5 at most
CompletenessPoints == {0, 5, 10, 15, 20, 25}

\* mutant of Clamp: the score is returned as computed
ClampNone(x) == x

\* Math.min(100, Math.max(0, score))
Clamp(x) == IF x > 100 THEN 100 ELSE IF x < 0 THEN 0 ELSE x

\* calculateConfidenceScore, pts being the completeness points of the persona
calculateConfidenceScore(pts, qlooInsights, validationScore) ==
    LET score == baseScore + pts + (IF qlooInsights # "null" THEN 10 ELSE 0)
    IN IF validationScore # Undefined /\ validationScore # 0
       THEN Clamp((score + validationScore * 10 + 1) \div 2)
       ELSE Clamp(score)

\* mutant of RoCall: for (attempt = 0; attempt <= maxRetries + 1; attempt++)
RoCallOneMore(m) == [RoIdle EXCEPT !.pc = "call", !.maxRetries = m + 1, !.calls = 1]

\* retryOperation(operation, m): the loop entered, the operation invoked
RoCall(m) == [RoIdle EXCEPT !.pc = "call", !.maxRetries = m, !.calls = 1]

\* retryOperation's catch when the attempt was not the last: the backoff sleep
RoSleep(code) ==
    \E j \in RoJitterChoices :
        ro' = [ro EXCEPT !.pc = "backoff",
                         !.lastError = roCatchError([isError |-> TRUE, code |-> code], ro.attempt),
                         !.sleeps = @ + 1,
                         !.wake = now + roBackoffBase(serviceBaseDelay, ro.attempt) + j]

\* the return of generatePersona's outer catch, or of the base persona check
GpFail(g, message) ==
    /\ gp' = [g EXCEPT !.pc = "done",
                       !.result = [success |-> FALSE, persona |-> "absent", error |-> message,
                                   hasMetadata |-> TRUE,
                                   metadata |-> [qloo_insights_included |-> FALSE,
                                                 validation_score |-> Undefined,
                                                 retry_attempts |-> g.retryAttempts],
                                   confidence_score |-> 0,
                                   reservedFrom |-> [inPersona \in BOOLEAN |-> "none"],
                                   qloo_insights |-> "null"]]
    /\ ro' = RoIdle

\* mutant of spreadThenAssign: { id: ..., ..., ...persona }
assignThenSpread(inPersona) == IF inPersona THEN "llm" ELSE "finalize"

\* { ...persona, id: ..., confidence_score: ..., qloo_insights: ...,
\* generation_timestamp: ... }: whose value a field of one of these names has,
\* the persona having such fields or not; a later key replaces an earlier one
spreadThenAssign(inPersona) == "finalize"

\* Step 4: finalize and return
Finalize(g) ==
    /\ \E pts \in CompletenessPoints :
          gp' = [g EXCEPT !.pc = "done",
                          !.result = [success |-> TRUE, persona |-> g.persona, error |-> "none",
                                      hasMetadata |-> TRUE,
                                      metadata |-> [qloo_insights_included |-> g.qlooInsights # "null",
                                                    validation_score |-> g.validationScore,
                                                    retry_attempts |-> g.retryAttempts],
                                      confidence_score |->
                                          calculateConfidenceScore(pts, g.qlooInsights,
                                                                   g.validationScore),
                                      reservedFrom |-> [inPersona \in BOOLEAN |->
                                                           spreadThenAssign(inPersona)],
                                      qloo_insights |-> g.qlooInsights]]
    /\ ro' = RoIdle

\* Step 3, up to its await
AfterEnrichment(g) ==
    IF g.validate
    THEN /\ gp' = [g EXCEPT !.pc = "validate", !.personaBeforeValidation = g.persona]
         /\ ro' = RoCall(validateRetries)
    ELSE Finalize(g)

\* mutant of AfterBase: the enrichment branch is left out
AfterBaseNoEnrichment(g) == AfterEnrichment(g)

\* Step 2, up to its await
AfterBase(g) ==
    IF g.includeQloo
    THEN /\ gp' = [g EXCEPT !.pc = "qloo"]
         /\ ro' = RoIdle
    ELSE AfterEnrichment(g)

GpUnchanged ==
    UNCHANGED <<now, requestQueue, requestHistory, processing, loops, nextId, burst,
                lastEnqueuePc, settled, dispatchLog, calls, sleeps, mode, calc, fb, wire, probe>>

\* generatePersona(formData, options): up to the first LLM call
GpStart(includeQloo, validate, retryAttempts) ==
    /\ mode = "pipeline"
    /\ gp.pc = "idle"
    /\ LET m == IF retryAttempts # 0 THEN retryAttempts ELSE serviceMaxRetries
           g == [gp EXCEPT !.includeQloo = includeQloo, !.validate = validate,
                           !.options = [retryAttempts |-> retryAttempts],
                           !.maxRetries = m, !.retryAttempts = 0]
       IN IF m >= 0
          THEN /\ gp' = [g EXCEPT !.pc = "base"]
               /\ ro' = RoCall(m)
          \* retryOperation's loop body never runs, throw lastError throws
          \* undefined into generatePersona's catch
          ELSE GpFail(g, "Unknown error")
    /\ GpUnchanged

Handlers == {"personas", "generate"}

\* options.retryAttempts passed by the POST handlers: none, and 3
handlerRetryAttempts(h) == IF h = "generate" THEN 3 ELSE 0

\* POST handler h: await request.json(), then generatePersona with the
\* handler's options; an unreadable body throws into the handler's catch
PostStart(h, readable) ==
    /\ mode = "pipeline"
    /\ gp.pc = "idle"
    /\ IF readable
       THEN LET ra == handlerRetryAttempts(h)
                m == IF ra # 0 THEN ra ELSE serviceMaxRetries
            IN /\ gp' = [gp EXCEPT !.pc = "base", !.handler = h, !.includeQloo = TRUE,
                                   !.validate = TRUE, !.options = [retryAttempts |-> ra],
                                   !.maxRetries = m, !.retryAttempts = 0]
               /\ ro' = RoCall(m)
       ELSE /\ gp' = [gp EXCEPT !.pc = "answered", !.handler = h, !.bodyReadable = FALSE]
            /\ ro' = RoIdle
    /\ GpUnchanged

\* what POST handler h answers: json(body, {status})
postResponse(h, readable, result) ==
    IF ~readable
    THEN [status |-> 500, success |-> FALSE, hasPersona |-> FALSE, hasError |-> TRUE,
          hasMetadata |-> FALSE]
    ELSE IF result.success /\ result.persona # "absent"
    THEN [status |-> 201, success |-> TRUE, hasPersona |-> TRUE, hasError |-> FALSE,
          hasMetadata |-> TRUE]
    ELSE [status |-> 400, success |-> FALSE, hasPersona |-> FALSE, hasError |-> TRUE,
          hasMetadata |-> h = "generate"]

\* the LLM call of generateBasePersona settles with content c
GpBaseDone(c) ==
    /\ mode = "pipeline"
    /\ gp.pc = "base" /\ ro.pc = "call"
    /\ LET r == baseOperation(c)
           g == [gp EXCEPT !.baseContent = c]
       IN IF r.threw
          THEN IF ro.attempt = ro.maxRetries
               THEN GpFail(g, r.code)
               ELSE RoSleep(r.code) /\ gp' = [g EXCEPT !.retries = @ + 1]
          ELSE IF baseFailed(r.data)
               THEN GpFail(g, baseFailureError)
               ELSE AfterBase([g EXCEPT !.persona = r.data])
    /\ GpUnchanged

\* the enrichment fetch settles with q
GpQlooDone(q) ==
    /\ mode = "pipeline"
    /\ gp.pc = "qloo"
    /\ q \in QlooOutcomes
    /\ LET insights == gatherQlooInsights(q)
           g == [gp EXCEPT !.qlooOutcome = q,
                           !.failures = IF q = "insights" THEN @ ELSE @ \cup {"qloo"}]
       IN IF hasInsights(insights)
          THEN /\ gp' = [g EXCEPT !.pc = "enhance", !.qlooInsights = insights,
                                  !.enhanceStarted = TRUE]
               /\ ro' = RoCall(enhanceRetries)
          ELSE AfterEnrichment([g EXCEPT !.qlooInsights = insights])
    /\ GpUnchanged

\* the LLM call of enhancePersonaWithQloo settles with content c
GpEnhanceDone(c) ==
    /\ mode = "pipeline"
    /\ gp.pc = "enhance" /\ ro.pc = "call"
    /\ LET r == enhanceOperation(c, gp.persona)
       IN IF r.threw
          THEN IF ro.attempt = ro.maxRetries
               THEN IF catchesStageFailure
                    THEN AfterEnrichment([gp EXCEPT !.failures = @ \cup {"enhance"}])
                    ELSE GpFail(gp, r.code)
               ELSE RoSleep(r.code) /\ gp' = [gp EXCEPT !.retries = @ + 1]
          ELSE AfterEnrichment([gp EXCEPT !.persona = IF r.data # "undefined"
                                                      THEN r.data ELSE @,
                                          !.failures = IF c = "unparsable"
                                                       THEN @ \cup {"enhance"} ELSE @])
    /\ GpUnchanged

\* the LLM call of validatePersona settles with content c
GpValidateDone(c) ==
    /\ mode = "pipeline"
    /\ gp.pc = "validate" /\ ro.pc = "call"
    /\ LET r == validateOperation(c)
       IN IF r.threw
          THEN IF ro.attempt = ro.maxRetries
               THEN IF catchesStageFailure
                    THEN Finalize([gp EXCEPT !.failures = @ \cup {"validate"}])
                    ELSE GpFail(gp, r.code)
               ELSE RoSleep(r.code) /\ gp' = [gp EXCEPT !.retries = @ + 1]
          ELSE Finalize([gp EXCEPT !.validationScore = r.data.overall_score,
                                   !.persona = IF r.data.enhanced_persona # "undefined"
                                               THEN r.data.enhanced_persona ELSE @,
                                   !.failures = IF c.kind = "unparsable"
                                                THEN @ \cup {"validate"} ELSE @])
    /\ GpUnchanged

(***************************************************************************)
(* LLMClient.generateCompletion on the wire: the request and response      *)
(* transformations of the three providers.                                 *)
(*                                                                         *)
(* A message is [role, content]; a content is a sequence of pieces, the    *)
(* piece i standing for the text the caller gave message i, Nl for a       *)
(* line break.  The caller's message list is one array of objects that     *)
(* filter() copies shallowly: an assignment to the content of a filtered   *)
(* message is an assignment to the caller's message.                       *)
(***************************************************************************)
MaxMsgs == 3     \* messages in the request
MaxSends == 2    \* sends of the same request object

Roles == {"system", "user", "assistant"}

Nl == 0          \* the piece that stands for '\n'

defaultTemperature == 7    \* 0.7, temperatures being counted in tenths
defaultMaxTokens == 1000

\* response.usage / response.usageMetadata absent, or none of its counters given
NoUsage == [prompt |-> Undefined, completion |-> Undefined, total |-> Undefined]

WireIdle == [pc |-> "idle", provider |-> "none", messages |-> <<>>, original |-> <<>>,
             options |-> [temperature |-> Undefined, max_tokens |-> Undefined],
             sent |-> <<>>, sentData |-> <<>>, sentConfig |-> <<>>, response |-> "none",
             rawUsage |-> NoUsage, usage |-> NoUsage,
             result |-> [success |-> FALSE, code |-> "none", choices |-> 0,
                         fabricated |-> FALSE]]

\* the message lists a caller can build
MessageLists ==
    UNION {{[i \in 1..n |-> [role |-> r[i], content |-> <<i>>]] : r \in [1..n -> Roles]}
           : n \in 1..MaxMsgs}

RECURSIVE Join(_, _)
\* contents.join(sep)
Join(contents, sep) ==
    IF contents = <<>> THEN <<>>
    ELSE IF Len(contents) = 1 THEN contents[1]
    ELSE contents[1] \o sep \o Join(Tail(contents), sep)

\* indices of the messages that are not system messages, in order
RECURSIVE conversationIndices(_, _)
conversationIndices(messages, i) ==
    IF i > Len(messages) THEN <<>>
    ELSE (IF messages[i].role # "system" THEN <<i>> ELSE <<>>)
         \o conversationIndices(messages, i + 1)

\* mutant of systemPrompt: messages.find(system)?.content
systemPromptFirstOnly(messages) ==
    LET sys == SelectSeq(messages, LAMBDA m : m.role = "system")
    IN IF sys = <<>> THEN <<>> ELSE sys[1].content

\* messages.filter(system).map(content).join('\n')
systemPrompt(messages) ==
    LET sys == SelectSeq(messages, LAMBDA m : m.role = "system")
    IN Join([k \in 1..Len(sys) |-> sys[k].content], <<Nl>>)

\* transformForGemini: the caller's messages after the call
geminiMessagesAfter(messages) ==
    LET conv == conversationIndices(messages, 1)
        sp == systemPrompt(messages)
    IN IF sp # <<>> /\ conv # <<>>
       THEN [messages EXCEPT ![conv[1]].content = sp \o <<Nl, Nl>> \o @]
       ELSE messages

\* transformForGemini: the contents put on the wire
geminiContents(messages) ==
    LET after == geminiMessagesAfter(messages)
        conv == conversationIndices(after, 1)
    IN [k \in 1..Len(conv) |->
           [role |-> IF after[conv[k]].role = "assistant" THEN "model" ELSE "user",
            text |-> after[conv[k]].content]]

\* transformForAnthropic: system and messages put on the wire
anthropicBody(messages) ==
    LET sys == SelectSeq(messages, LAMBDA m : m.role = "system")
        conv == SelectSeq(messages, LAMBDA m : m.role # "system")
    IN <<[role |-> "system", text |-> IF sys # <<>> THEN sys[1].content ELSE <<>>]>>
       \o [k \in 1..Len(conv) |-> [role |-> conv[k].role, text |-> conv[k].content]]

\* OpenAI: JSON.stringify(data)
openaiBody(messages) ==
    [k \in 1..Len(messages) |-> [role |-> messages[k].role, text |-> messages[k].content]]

\* temperature and max_tokens a caller can ask for: none, zero, some
RequestOptions ==
    {[temperature |-> t, max_tokens |-> m] : t \in {Undefined, 0, 3}, m \in {Undefined, 500}}

\* generateCompletion: requestData, x || d
requestData(options) ==
    [temperature |-> IF options.temperature \in {Undefined, 0}
                     THEN defaultTemperature ELSE options.temperature,
     max_tokens |-> IF options.max_tokens \in {Undefined, 0}
                    THEN defaultMaxTokens ELSE options.max_tokens]

\* transformForGemini: generationConfig, x ?? d
generationConfig(data) ==
    [temperature |-> IF data.temperature = Undefined
                     THEN defaultTemperature ELSE data.temperature,
     maxOutputTokens |-> IF data.max_tokens = Undefined
                         THEN defaultMaxTokens ELSE data.max_tokens]

\* makeRequest, up to the fetch: the sampling settings of the body
bodyConfig(provider, data) ==
    IF provider = "gemini" THEN generationConfig(data) ELSE data

\* makeRequest, up to the fetch: what is transmitted
transmitted(provider, messages) ==
    CASE provider = "gemini" -> geminiContents(messages)
      [] provider = "anthropic" -> anthropicBody(messages)
      [] OTHER -> openaiBody(messages)

\* makeRequest, up to the fetch: the caller's messages afterwards
messagesAfterSend(provider, messages) ==
    IF provider = "gemini" THEN geminiMessagesAfter(messages) ELSE messages

\* what the fetch can bring: a failure, or a 2xx body whose candidate / content /
\* choices list holds one entry, is empty, or is missing
WireResponses == {"network_error", "http_error", "full", "empty", "missing"}

\* the token counters of a 2xx body (input, output and total under the
\* provider's names), each given or not
RawUsages ==
    {[prompt |-> p, completion |-> c, total |-> t] :
        p \in {Undefined, 3}, c \in {5}, t \in {Undefined, 8, 9}} \cup {NoUsage}

\* x || 0
OrZero(x) == IF x = Undefined THEN 0 ELSE x

\* usage of the response generateCompletion returns
normaliseUsage(provider, raw) ==
    CASE provider = "gemini" ->
            [prompt |-> OrZero(raw.prompt), completion |-> OrZero(raw.completion),
             total |-> OrZero(raw.total)]
      [] provider = "anthropic" ->
            [prompt |-> OrZero(raw.prompt), completion |-> OrZero(raw.completion),
             total |-> OrZero(raw.prompt) + OrZero(raw.completion)]
         \* OpenAI: return responseData
      [] OTHER -> raw

WireResult(ok, c, n, fab) == [success |-> ok, code |-> c, choices |-> n, fabricated |-> fab]

\* makeRequest after the fetch and generateCompletion's try/catch
normalise(provider, resp) ==
    CASE resp = "network_error" -> WireResult(FALSE, "NETWORK_ERROR", 0, FALSE)
      [] resp = "http_error" -> WireResult(FALSE, "HTTP_500", 0, FALSE)
      [] provider = "gemini" /\ resp = "full" -> WireResult(TRUE, "none", 1, FALSE)
         \* transformFromGemini: if (!candidate) throw INVALID_RESPONSE
      [] provider = "gemini" -> WireResult(FALSE, "INVALID_RESPONSE", 0, FALSE)
         \* transformFromAnthropic: choices: [{content: response.content?.[0]?.text || ''}]
      [] provider = "anthropic" -> WireResult(TRUE, "none", 1, resp # "full")
         \* OpenAI: return responseData
      [] OTHER -> WireResult(TRUE, "none", IF resp = "full" THEN 1 ELSE 0, FALSE)

WireUnchanged ==
    UNCHANGED <<now, requestQueue, requestHistory, processing, loops, nextId, burst,
                lastEnqueuePc, settled, dispatchLog, calls, sleeps, mode, calc, ro, fb, gp, probe>>

\* the caller builds a request for a provider's client
WireCompose(provider, messages, options) ==
    /\ mode = "wire"
    /\ wire.pc = "idle" /\ wire.provider = "none"
    /\ wire' = [wire EXCEPT !.provider = provider, !.messages = messages,
                            !.original = messages, !.options = options]
    /\ WireUnchanged

\* generateCompletion(request), up to the fetch
WireSend ==
    /\ mode = "wire"
    /\ wire.pc = "idle" /\ wire.provider # "none"
    /\ Len(wire.sent) < MaxSends
    /\ wire' = [wire EXCEPT !.pc = "fetch",
                            !.sent = Append(@, transmitted(wire.provider, wire.messages)),
                            !.sentData = Append(@, wire.messages),
                            !.sentConfig = Append(@, bodyConfig(wire.provider,
                                                                requestData(wire.options))),
                            !.messages = messagesAfterSend(wire.provider, @)]
    /\ WireUnchanged

\* the fetch settles: generateCompletion returns
WireResponse(resp, raw) ==
    /\ mode = "wire"
    /\ wire.pc = "fetch"
    /\ LET result == normalise(wire.provider, resp)
       IN /\ result.success \/ raw = NoUsage
          /\ wire' = [wire EXCEPT !.pc = "idle", !.response = resp, !.result = result,
                                  !.rawUsage = raw,
                                  !.usage = IF result.success
                                            THEN normaliseUsage(wire.provider, raw)
                                            ELSE NoUsage]
    /\ WireUnchanged

(***************************************************************************)
(* The connectivity probes: EnhancedLLMClient.testConnections and          *)
(* PersonaGenerationService.testService.                                   *)
(*                                                                         *)
(* testConnections races each provider's testConnection() against a 10 s   *)
(* timer; a timer that is due runs before an answer that arrives later.    *)
(* The shipped LLMClient.testConnection never throws; with probe.stubbed   *)
(* the provider clients are stand-ins that may.  Nothing obliges a         *)
(* provider to answer at all.                                              *)
(***************************************************************************)
ProbeTimeoutMs == 10000

ProbeIdle == [pc |-> "idle", stubbed |-> FALSE, start |-> 0,
              status |-> [p \in Providers |-> "idle"],
              results |-> [p \in Providers |-> FALSE], overall |-> FALSE,
              svcPc |-> "idle", llmOutcome |-> "none", qlooOutcome |-> "none",
              svc |-> [llm |-> FALSE, qloo |-> FALSE]]

\* how client.testConnection() can settle
ProbeOutcomes == {"true", "false"} \cup (IF probe.stubbed THEN {"throws"} ELSE {})

\* testProvider: return result.success; catch: return false
testProviderResult(o) == o = "true"

\* mutant of overallOf: every provider must answer
overallAll(r) == r["openai"] /\ r["anthropic"] /\ r["gemini"]

\* results.overall = results.openai || results.anthropic || results.gemini
overallOf(r) == r["openai"] \/ r["anthropic"] \/ r["gemini"]

ProbeUnchanged ==
    UNCHANGED <<now, requestQueue, requestHistory, processing, loops, nextId, burst,
                lastEnqueuePc, settled, dispatchLog, calls, sleeps, mode, calc, ro, fb, gp, wire>>

\* testConnections(): the three testProvider calls are started
ProbeStart(stubbed) ==
    /\ mode = "probe"
    /\ probe.pc = "idle"
    /\ probe' = [probe EXCEPT !.pc = "running", !.stubbed = stubbed, !.start = now,
                              !.status = [p \in Providers |-> "pending"]]
    /\ ProbeUnchanged

\* testProvider(p) settles with status st and value v; when it is the last of
\* the three, Promise.allSettled resolves and testConnections returns
ProbeSettle(p, st, v) ==
    LET status == [probe.status EXCEPT ![p] = st]
        results == [probe.results EXCEPT ![p] = v]
    IN IF \A q \in Providers : status[q] # "pending"
       THEN probe' = [probe EXCEPT !.status = status, !.results = results,
                                   !.overall = overallOf(results), !.pc = "done"]
       ELSE probe' = [probe EXCEPT !.status = status, !.results = results]

\* the provider's testConnection() settles before the timer is due
ProbeAnswer(p, o) ==
    /\ mode = "probe"
    /\ probe.pc = "running" /\ probe.status[p] = "pending"
    /\ now < probe.start + ProbeTimeoutMs
    /\ o \in ProbeOutcomes
    /\ ProbeSettle(p, IF o = "throws" THEN "threw" ELSE "answered_" \o o,
                   testProviderResult(o))
    /\ ProbeUnchanged

\* the 10 s timer of testProvider(p) rejects the race
ProbeTimeout(p) ==
    /\ mode = "probe"
    /\ probe.pc = "running" /\ probe.status[p] = "pending"
    /\ now >= probe.start + ProbeTimeoutMs
    /\ ProbeSettle(p, "timeout", FALSE)
    /\ ProbeUnchanged

\* testService(): up to the await of llmClient.testConnection()
SvcStart ==
    /\ mode = "probe"
    /\ probe.svcPc = "idle"
    /\ probe' = [probe EXCEPT !.svcPc = "llm"]
    /\ ProbeUnchanged

\* the LLM test settles: results.llm = llmTest.success, or the catch
SvcLlmDone(o) ==
    /\ mode = "probe"
    /\ probe.svcPc = "llm"
    /\ o \in {"true", "false", "throws"}
    /\ probe' = [probe EXCEPT !.svcPc = "qloo", !.llmOutcome = o, !.svc.llm = (o = "true")]
    /\ ProbeUnchanged

\* qlooService.searchEntities settles: results.qloo = true, or the catch
SvcQlooDone(o) ==
    /\ mode = "probe"
    /\ probe.svcPc = "qloo"
    /\ probe' = [probe EXCEPT !.svcPc = "done", !.qlooOutcome = o,
                              !.svc.qloo = (o = "resolves")]
    /\ ProbeUnchanged

(***************************************************************************)
(* Time                                                                    *)
(***************************************************************************)
PendingDeadlines ==
    {loops[l].wake : l \in {k \in LoopIds : /\ loops[k].pc \in {"waitQuota", "delay", "backoff"}
                                            /\ loops[k].wake > now}}
    \cup {w \in {ro.wake} : ro.pc = "backoff" /\ w > now}
    \cup {w \in {probe.start + ProbeTimeoutMs} : probe.pc = "running" /\ w > now}

SetMin(S) == CHOOSE x \in S : \A y \in S : x <= y

\* time moves to the next timer deadline
TimerJump ==
    /\ PendingDeadlines # {}
    /\ now' = SetMin(PendingDeadlines)
    /\ UNCHANGED <<requestQueue, requestHistory, processing, loops, nextId, burst,
                   lastEnqueuePc, settled, dispatchLog, calls, sleeps, mode, calc, ro, fb, gp, wire, probe>>

ElapseSteps == {MinuteMs}

\* time moves on by itself: a slow operation, a late timer, an idle client
Elapse ==
    /\ \E d \in ElapseSteps :
          /\ now + d <= (IF mode = "client" THEN MaxTime ELSE MaxHarnessTime)
          /\ now' = now + d
    /\ UNCHANGED <<requestQueue, requestHistory, processing, loops, nextId, burst,
                   lastEnqueuePc, settled, dispatchLog, calls, sleeps, mode, calc, ro, fb, gp, wire, probe>>

(***************************************************************************)
(* The two computations taken on their own: the delay executeWithRetry     *)
(* sleeps before a retry, for attempts beyond those the queue model        *)
(* reaches, and calculateConfidenceScore on the fields of the persona it   *)
(* reads.                                                                  *)
(***************************************************************************)
MaxAttempt == 6      \* largest attempt a delay is computed for

\* what calculateConfidenceScore reads of a persona: the number of keys of
\* demographics, the lengths of psychographics.values and of
\* marketing_strategy.best_channels, and whether
\* behavioral_patterns.daily_routine is truthy; 0 also stands for an absent part
PersonaShapes ==
    {[demographics |-> d, values |-> v, daily_routine |-> r, best_channels |-> c] :
        d \in {0, 5, 6}, v \in {0, 1, 3}, r \in BOOLEAN, c \in {0, 1, 2}}

CalcIdle == [fn |-> "none", attempt |-> 0,
             persona |-> [demographics |-> 0, values |-> 0, daily_routine |-> FALSE,
                          best_channels |-> 0],
             qlooInsights |-> "null", validationScore |-> Undefined, out |-> 0]

\* calculateConfidenceScore: add points for completeness
completenessPoints(persona) ==
    (IF persona.demographics >= 6 THEN 10 ELSE 0)
    + (IF persona.values >= 3 THEN 5 ELSE 0)
    + (IF persona.daily_routine THEN 5 ELSE 0)
    + (IF persona.best_channels >= 2 THEN 5 ELSE 0)

CalcUnchanged ==
    UNCHANGED <<now, requestQueue, requestHistory, processing, loops, nextId, burst,
                lastEnqueuePc, settled, dispatchLog, calls, sleeps, mode, ro, fb, gp,
                wire, probe>>

\* executeWithRetry: the delay slept after the failure of the given attempt
DelayComputed(attempt) ==
    /\ mode = "calc"
    /\ \E j \in JitterChoices(backoffBase(attempt)) :
          calc' = [CalcIdle EXCEPT !.fn = "delay", !.attempt = attempt,
                                  !.out = backoffBase(attempt) + j]
    /\ CalcUnchanged

\* calculateConfidenceScore(persona, qlooInsights, validationScore)
ScoreComputed(persona, qlooInsights, validationScore) ==
    /\ mode = "calc"
    /\ calc' = [CalcIdle EXCEPT !.fn = "score", !.persona = persona,
                                !.qlooInsights = qlooInsights,
                                !.validationScore = validationScore,
                                !.out = calculateConfidenceScore(completenessPoints(persona),
                                                                 qlooInsights, validationScore)]
    /\ CalcUnchanged

(***************************************************************************)
(* Specifications                                                          *)
(***************************************************************************)
InitCommon ==
    /\ now = 0
    /\ requestQueue = <<>>
    /\ requestHistory = <<>>
    /\ processing = FALSE
    /\ loops = [l \in LoopIds |-> IdleLoop]
    /\ nextId = 1
    /\ burst = 0
    /\ lastEnqueuePc = "idle"
    /\ settled = [i \in OpIds |-> Pending]
    /\ dispatchLog = <<>>
    /\ calls = [i \in OpIds |-> 0]
    /\ sleeps = [i \in OpIds |-> 0]
    /\ ro = RoIdle
    /\ wire = WireIdle
    /\ probe = ProbeIdle
    /\ calc = CalcIdle

\* the program: executeWithRetry wraps LLMClient.generateCompletion
Init == InitCommon /\ mode = "client" /\ fb = FbIdle /\ gp = GpIdle

Next ==
    \/ Submit
    \/ \E l \in LoopIds : \E r \in OperationResults : OperationDone(l, r)
    \/ \E l \in LoopIds : TimerFires(l)
    \/ TimerJump
    \/ Elapse

Spec == Init /\ [][Next]_vars

\* the retry wrappers on their own: executeWithRetry around an arbitrary
\* operation (run through the queue), and retryOperation
InitRetry == InitCommon /\ mode \in {"generic", "retryOperation"} /\ fb = FbIdle /\ gp = GpIdle

NextRetry ==
    \/ Next
    \/ \E m \in 1..MaxRetryAttempts : RoStart(m)
    \/ \E r \in RoOutcomes : RoOperationDone(r)
    \/ RoTimerFires

SpecRetry == InitRetry /\ [][NextRetry]_vars

\* generatePersonaInsights on its own: any subset of the three API keys is
\* set in the environment, and the provider clients are the shipped ones or
\* stand-ins that may throw
InitFallback ==
    /\ InitCommon
    /\ mode = "fallback"
    /\ gp = GpIdle
    /\ \E K \in SUBSET Providers : \E st \in BOOLEAN :
          fb = [FbIdle EXCEPT !.keys = K, !.stubbed = st]

NextFallback ==
    \/ \E pref \in Providers : FbStart(pref)
    \/ \E r \in FbProviderResults : FbProviderDone(r)

SpecFallback == InitFallback /\ [][NextFallback]_vars

\* generatePersona on its own, with the shipped enrichment service or a stand-in
InitPipeline ==
    /\ InitCommon
    /\ mode = "pipeline"
    /\ fb = FbIdle
    /\ \E sv \in {"shipped", "stub"} : gp = [GpIdle EXCEPT !.service = sv]

NextPipeline ==
    \/ \E q \in BOOLEAN, v \in BOOLEAN, m \in (-1)..MaxRetryAttempts : GpStart(q, v, m)
    \/ \E h \in Handlers, readable \in BOOLEAN : PostStart(h, readable)
    \/ \E c \in BaseContents : GpBaseDone(c)
    \/ \E q \in QlooOutcomes : GpQlooDone(q)
    \/ \E c \in EnhanceContents : GpEnhanceDone(c)
    \/ \E c \in ValidateContents : GpValidateDone(c)
    \/ RoTimerFires
    \/ TimerJump

SpecPipeline == InitPipeline /\ [][NextPipeline]_vars

\* the one thing a running generatePersona waits for happens: the awaited call
\* settles, or time reaches the backoff timer and its callback runs
PipelineFairness ==
    WF_vars(\/ TimerJump
            \/ RoTimerFires
            \/ \E c \in BaseContents : GpBaseDone(c)
            \/ \E q \in QlooOutcomes : GpQlooDone(q)
            \/ \E c \in EnhanceContents : GpEnhanceDone(c)
            \/ \E c \in ValidateContents : GpValidateDone(c))

SpecPipelineLive == InitPipeline /\ [][NextPipeline]_vars /\ PipelineFairness

\* one request object sent through one provider's LLMClient
InitWire == InitCommon /\ mode = "wire" /\ fb = FbIdle /\ gp = GpIdle

NextWire ==
    \/ \E p \in Providers, ms \in MessageLists, o \in RequestOptions : WireCompose(p, ms, o)
    \/ WireSend
    \/ \E resp \in WireResponses, raw \in RawUsages : WireResponse(resp, raw)

SpecWire == InitWire /\ [][NextWire]_vars

\* the two computations on their own
InitCalc == InitCommon /\ mode = "calc" /\ fb = FbIdle /\ gp = GpIdle

NextCalc ==
    \/ \E attempt \in 0..MaxAttempt : DelayComputed(attempt)
    \/ \E persona \in PersonaShapes, q \in {"null", "insights"},
          v \in ValidationScores \cup {Undefined} : ScoreComputed(persona, q, v)

SpecCalc == InitCalc /\ [][NextCalc]_vars

\* the two probes on their own; the timers run, the awaited calls of
\* testService settle, and the providers raced by testConnections may stay silent
InitProbe == InitCommon /\ mode = "probe" /\ fb = FbIdle /\ gp = GpIdle

NextProbe ==
    \/ \E st \in BOOLEAN : ProbeStart(st)
    \/ \E p \in Providers : \E o \in ProbeOutcomes : ProbeAnswer(p, o)
    \/ \E p \in Providers : ProbeTimeout(p)
    \/ SvcStart
    \/ \E o \in {"true", "false", "throws"} : SvcLlmDone(o)
    \/ \E o \in {"resolves", "throws"} : SvcQlooDone(o)
    \/ TimerJump
    \/ Elapse

ProbeFairness ==
    /\ WF_vars(TimerJump)
    /\ \A p \in Providers : WF_vars(ProbeTimeout(p))
    /\ WF_vars(\E o \in {"true", "false", "throws"} : SvcLlmDone(o))
    /\ WF_vars(\E o \in {"resolves", "throws"} : SvcQlooDone(o))

SpecProbe == InitProbe /\ [][NextProbe]_vars /\ ProbeFairness

\* Scheduling: the event loop runs every due timer callback, time reaches the
\* next timer deadline, and every awaited operation settles.
Fairness ==
    /\ WF_vars(TimerJump)
    /\ \A l \in LoopIds : WF_vars(TimerFires(l))
    /\ \A l \in LoopIds : WF_vars(\E r \in OperationResults : OperationDone(l, r))

SpecLive == Init /\ [][Next]_vars /\ Fairness

SpecRetryLive == InitRetry /\ [][NextRetry]_vars /\ Fairness

(***************************************************************************)
(* Properties                                                              *)
(***************************************************************************)
At(k) == dispatchLog[k].at

\* dispatches before the k-th that lie within the w ms up to the k-th
EarlierWithin(k, w) == Cardinality({j \in 1..(k - 1) : At(j) > At(k) - w})

Submitted(i) == nextId > i
IsSettled(i) == settled[i].kind # "pending"
Failed(i) == settled[i].kind = "rejected" \/ (settled[i].kind = "resolved" /\ ~settled[i].success)

\* C1: every dispatch happens when fewer than requestsPerMinute earlier
\* dispatches lie in the 60 s up to it and fewer than requestsPerHour in the
\* 3600 s up to it; so no 60 s window (t - 60000, t] holds more than
\* requestsPerMinute dispatches and no 3600 s window more than requestsPerHour.
C1_QuotaAdmission ==
    \A k \in 1..Len(dispatchLog) :
        /\ EarlierWithin(k, MinuteMs) < requestsPerMinute
        /\ EarlierWithin(k, HourMs) < requestsPerHour
        /\ Cardinality({j \in 1..Len(dispatchLog) : At(j) > At(k) - MinuteMs /\ At(j) <= At(k)})
               <= requestsPerMinute
        /\ Cardinality({j \in 1..Len(dispatchLog) : At(j) > At(k) - HourMs /\ At(j) <= At(k)})
               <= requestsPerHour

\* both quotas have held a dispatch back
C1_Witness ==
    /\ Len(dispatchLog) = MaxOps
    /\ At(requestsPerMinute + 1) >= At(1) + MinuteMs
    /\ At(requestsPerHour + 1) >= At(1) + HourMs

\* C2: operations are dispatched in submission order: the k-th dispatch is
\* the k-th submitted operation, and the queue holds its items in submission order.
C2_Fifo ==
    /\ \A k \in 1..Len(dispatchLog) : dispatchLog[k].id = k
    /\ \A k \in 1..Len(requestQueue) : requestQueue[k] = Len(dispatchLog) + k

\* all operations were queued together, waited for quota, and one failed
C2_Witness ==
    /\ Len(dispatchLog) = MaxOps
    /\ burst = MaxOps
    /\ At(MaxOps) >= At(1) + HourMs
    /\ \E i \in OpIds : Failed(i)

\* C3: at most one processQueue invocation is active, the flag is set exactly
\* while one is, and a submission made while the flag is set only enqueues:
\* it dispatches nothing and starts no loop.
C3_SingleDrainLoop ==
    /\ [](Cardinality(ActiveLoops) <= 1 /\ (processing <=> ActiveLoops # {}))
    /\ [][(processing /\ nextId' # nextId)
            => UNCHANGED <<requestHistory, dispatchLog, loops, processing>>]_vars

\* a submission arrived while the loop was awaiting an operation
C3_Witness ==
    /\ processing
    /\ \E l \in LoopIds : loops[l].pc = "call"
    /\ Len(requestQueue) >= 2

\* C4: every submitted operation is eventually dispatched and settled with no
\* further submission: again and again every operation submitted so far is
\* settled (a settled promise stays settled, so an operation that is never
\* settled would falsify this from its submission on); and whenever the queue
\* is non-empty a drain loop is active.
C4_NoStranding ==
    /\ []<>(\A i \in OpIds : Submitted(i) => IsSettled(i))
    /\ [](requestQueue # <<>> => (processing /\ ActiveLoops # {}))

\* an item was enqueued while the loop was in the delay after the last dispatch
C4_Witness ==
    /\ \E l \in LoopIds : loops[l].pc = "delay"
    /\ Len(requestQueue) = 1
    /\ lastEnqueuePc = "delay"
    /\ Head(requestQueue) = Len(dispatchLog) + 1

\* C5: when requestsPerMinute + 1 operations are submitted at the same
\* instant to a client with empty history, the (requestsPerMinute + 1)-th is
\* dispatched at least 60 s after the first.
C5_BurstSpansAMinute ==
    (/\ Len(dispatchLog) > requestsPerMinute
     /\ burst > requestsPerMinute)
    => At(requestsPerMinute + 1) >= At(1) + MinuteMs

\* the burst was submitted at once and its last operation has been dispatched
C5_Witness ==
    /\ Len(dispatchLog) = requestsPerMinute + 1
    /\ burst = requestsPerMinute + 1
    /\ At(requestsPerMinute + 1) = MinuteMs

AuthCodes == {"INVALID_API_KEY", "INSUFFICIENT_QUOTA"}
TransportCodes == {"HTTP_500", "NETWORK_ERROR"}

\* C6: a failing operation rejects its own promise and no other: a step
\* settles one promise, that of the item the loop holds; after a rejection the
\* loop is in its inter-dispatch delay with the flag set; every submitted
\* operation is eventually settled, failures before it or not (again and again
\* all submitted so far are settled); and the flag is never set without a
\* loop, and is cleared again and again.
C6_FailureIsolated ==
    /\ [][\A i \in OpIds : settled'[i] # settled[i] =>
            /\ settled[i].kind = "pending"
            /\ \E l \in LoopIds : loops[l].pc = "call" /\ loops[l].item = i
            /\ \A j \in OpIds \ {i} : settled'[j] = settled[j]
            /\ processing' /\ \E l \in LoopIds : loops'[l].pc = "delay"]_vars
    /\ []<>(\A i \in OpIds : Submitted(i) => IsSettled(i))
    /\ [](processing => ActiveLoops # {})
    /\ []<>(~processing)

\* the first operation was rejected; the second, queued behind it, was
\* dispatched after it and resolved, and the loop has returned
C6_Witness ==
    /\ settled[1].kind = "rejected"
    /\ burst >= 2
    /\ settled[2].kind = "resolved" /\ settled[2].success
    /\ ~processing

\* C7: executeWithRetry invokes the operation at most maxRetries + 1 times; a
\* returned value ends it at once (no invocation follows the successful one);
\* and when every invocation fails with a retryable error there are exactly
\* maxRetries + 1 invocations.
C7_AttemptBound ==
    \A i \in OpIds :
        /\ calls[i] <= maxRetries + 1
        /\ settled[i].kind = "resolved" =>
              calls[i] = settled[i].attempt + 1 /\ sleeps[i] = settled[i].attempt
        /\ (settled[i].kind = "rejected" /\ settled[i].error.code \notin AuthCodes) =>
              calls[i] = maxRetries + 1 /\ sleeps[i] = maxRetries

\* one operation succeeded on its second invocation, the other failed on all
C7_Witness ==
    /\ mode = "generic"
    /\ settled[1].kind = "resolved" /\ calls[1] = 2
    /\ settled[2].kind = "rejected" /\ calls[2] = maxRetries + 1

\* C8: an auth-class LLMAPIError ends executeWithRetry at once: no backoff
\* sleep and no invocation follows it, and the promise is rejected with that
\* error; raised by the first invocation, the operation ran exactly once.
C8_AuthShortCircuit ==
    /\ \A l \in LoopIds :
          loops[l].pc \in {"backoff", "call"} => loops[l].lastError.code \notin AuthCodes
    /\ \A i \in OpIds :
          (settled[i].kind = "rejected" /\ settled[i].error.code \in AuthCodes) =>
              /\ calls[i] = settled[i].error.attempt + 1
              /\ sleeps[i] = settled[i].error.attempt
              /\ settled[i].error.attempt = 0 => (calls[i] = 1 /\ sleeps[i] = 0)

\* the first invocation raised a quota error, with retries configured
C8_Witness ==
    /\ maxRetries >= 1
    /\ settled[1].kind = "rejected"
    /\ settled[1].error = [attempt |-> 0, code |-> "INSUFFICIENT_QUOTA", wrapped |-> FALSE]
    /\ calls[1] = 1

\* C9: when all maxRetries + 1 attempts fail, executeWithRetry and
\* retryOperation throw the error the last attempt raised, unwrapped.
C9_LastErrorRethrown ==
    /\ \A i \in OpIds :
          (settled[i].kind = "rejected" /\ calls[i] = maxRetries + 1) =>
              settled[i].error.attempt = maxRetries /\ ~settled[i].error.wrapped
    /\ (ro.pc = "thrown") =>
          /\ ro.calls = ro.maxRetries + 1
          /\ ro.thrown.attempt = ro.maxRetries
          /\ ~ro.thrown.wrapped

\* retryOperation has failed on every attempt, the last error differing from the first
C9_Witness ==
    /\ ro.pc = "thrown"
    /\ ro.maxRetries = MaxRetryAttempts
    /\ ro.calls = MaxRetryAttempts + 1
    /\ ro.thrown.code = "INVALID_JSON"

\* C10 (as claimed): a provider call that fails with a transport error is
\* attempted maxRetries + 1 times before the failure reaches the caller.
C10_TransportFailureRetried ==
    \A i \in OpIds :
        (Failed(i) /\ settled[i].error.code \in TransportCodes) => calls[i] = maxRetries + 1

ExpectedOrder(pref) ==
    <<pref>> \o SelectSeq(<<"gemini", "openai", "anthropic">>, LAMBDA x : x # pref)

\* C11: the providers attempted so far are an initial part of: the preferred
\* provider, then gemini, openai, anthropic without the preferred one; no
\* provider is attempted twice; and when the run ends in success after three
\* attempts, the first two failed and the result is the third provider's.
C11_FallbackOrder ==
    fb.pc # "idle" =>
        /\ Len(fb.log) <= Len(ExpectedOrder(fb.pref))
        /\ fb.log = SubSeq(ExpectedOrder(fb.pref), 1, Len(fb.log))
        /\ \A i, j \in 1..Len(fb.log) : fb.log[i] = fb.log[j] => i = j
        /\ \A p \in Providers : fb.calls[p] <= 1
        /\ (fb.pc = "done" /\ fb.result.success /\ Len(fb.log) = 3) =>
              /\ ~fb.outcomes[1].ok /\ ~fb.outcomes[2].ok
              /\ fb.result.provider = ExpectedOrder(fb.pref)[3]

\* openai preferred, openai and gemini failed, anthropic succeeded
C11_Witness ==
    /\ fb.pc = "done"
    /\ fb.pref = "openai"
    /\ fb.log = <<"openai", "gemini", "anthropic">>
    /\ fb.result.success /\ fb.result.provider = "anthropic"

\* C12: a successful attempt is the last one made and its result is what is
\* returned; when the result is a failure every provider was attempted and
\* failed, and the message embeds the error of the last provider attempted.
C12_FirstSuccessOrLastError ==
    /\ Len(fb.outcomes) <= Len(fb.log)
    /\ \A k \in 1..Len(fb.outcomes) :
          fb.outcomes[k].ok =>
              /\ k = Len(fb.log)
              /\ fb.pc = "done"
              /\ fb.result.success /\ fb.result.provider = fb.log[k]
    /\ (fb.pc = "done" /\ ~fb.result.success) =>
          /\ Len(fb.log) = 3 /\ Len(fb.outcomes) = 3
          /\ \A k \in 1..3 : ~fb.outcomes[k].ok
          /\ fb.result.embeds = [provider |-> fb.log[3], code |-> fb.outcomes[3].code,
                                 thrown |-> fb.outcomes[3].thrown]

\* every provider failed, the first by returning a failure and the last by throwing
C12_Witness ==
    /\ fb.pc = "done"
    /\ ~fb.result.success
    /\ ~fb.outcomes[1].thrown
    /\ fb.outcomes[3].thrown
    /\ fb.result.embeds.provider = "anthropic"

\* the first provider succeeded and no other was called
C12_WitnessSuccess ==
    /\ fb.pc = "done"
    /\ fb.result.success
    /\ Len(fb.log) = 1

\* C13 (as claimed): the loop leaves a failing provider only after
\* maxRetries + 1 attempts at it.
C13_RetryInsideFallback ==
    \A k \in 1..Len(fb.outcomes) :
        ~fb.outcomes[k].ok => fb.calls[fb.log[k]] = maxRetries + 1

\* C14 (as claimed): no attempt is issued to a provider whose API key is not set.
C14_NoAttemptWithoutCredential ==
    \A p \in Providers \ fb.keys : fb.calls[p] = 0

GpDone == gp.pc = "done"

\* C15: a failure result comes from base generation only: while the pipeline
\* is past base generation it holds a persona, and once it is done with a
\* persona the result is a success, whatever failed in the enrichment fetch,
\* the enhancement call or the validation call.
C15_OnlyBaseFails ==
    /\ gp.pc \in {"qloo", "enhance", "validate"} => gp.persona \notin {"none", "undefined"}
    /\ (GpDone /\ ~gp.result.success) => (gp.persona = "none" /\ gp.failures = {})
    /\ (GpDone /\ gp.persona # "none") => gp.result.success
    /\ (GpDone /\ gp.failures # {}) => gp.result.success

\* the enhancement call and the validation call both failed on every attempt
C15_Witness ==
    /\ GpDone
    /\ gp.result.success
    /\ {"enhance", "validate"} \subseteq gp.failures
    /\ gp.qlooInsights = "insights"
    /\ gp.validationScore = Undefined

\* C16: a success result carries a persona, a failure result carries a
\* non-empty error and no persona, and both carry metadata.
C16_ResultShape ==
    GpDone =>
        /\ gp.result.hasMetadata
        /\ gp.result.success =>
              gp.result.persona \notin {"absent", "undefined", "none"}
        /\ ~gp.result.success =>
              /\ gp.result.error \notin {"", "none"}
              /\ gp.result.persona = "absent"

\* the content strict-parsed to an object without a persona key: a failure result
C16_Witness ==
    /\ GpDone
    /\ gp.baseContent = "json_bare"
    /\ ~gp.result.success
    /\ gp.result.error = baseFailureError

\* C17: when the enrichment fetch was requested and threw or returned
\* nothing, no enhancement LLM call is issued and the result is a success
\* with qloo_insights_included = false.
C17_EnrichmentFetchFailure ==
    /\ gp.pc = "enhance" => gp.qlooOutcome = "insights"
    /\ gp.qlooOutcome \in {"throws", "null"} =>
          /\ gp.includeQloo
          /\ ~gp.enhanceStarted
          /\ GpDone => (gp.result.success /\ ~gp.result.metadata.qloo_insights_included)

\* the shipped service threw, validation was requested, and the pipeline is done
C17_Witness ==
    /\ GpDone
    /\ gp.service = "shipped"
    /\ gp.qlooOutcome = "throws"
    /\ gp.validate
    /\ gp.result.success

\* C18 (as claimed): metadata.retry_attempts is the number of retries
\* performed during the request.
C18_RetryAttemptsReported ==
    GpDone => gp.result.metadata.retry_attempts = gp.retries

\* C19 (as claimed): content that strict-parses as a JSON object, with or
\* without a persona key, yields a persona and no failure.
C19_StrictJsonYieldsPersona ==
    (GpDone /\ gp.baseContent \in {"json_persona", "json_bare"}) =>
        (gp.result.success /\ gp.persona # "none")

\* C20 (as claimed): when validation fails (every attempt of the call fails,
\* or its content is not parsable), the result is a success with the persona
\* held before validation and validation_score = 7.
C20_NeutralScoreOnValidationFailure ==
    (GpDone /\ "validate" \in gp.failures) =>
        /\ gp.result.success
        /\ gp.result.persona = gp.personaBeforeValidation
        /\ gp.result.metadata.validation_score = defaultValidationScore

\* C21: the confidence score of a returned persona lies in [0, 100],
\* whatever the completeness of the persona, the enrichment outcome and the
\* validation score, in or out of its scale.
C21_ConfidenceBounds ==
    (GpDone /\ gp.result.success) =>
        (gp.result.confidence_score >= 0 /\ gp.result.confidence_score <= 100)

\* a validation score above the scale: the score computed is above 100 and is clamped
C21_Witness ==
    /\ GpDone /\ gp.result.success
    /\ gp.validationScore = 15
    /\ gp.qlooInsights = "insights"
    /\ gp.result.confidence_score = 100

\* a validation score below the scale: the score computed is negative and is clamped
C21_WitnessLow ==
    /\ GpDone /\ gp.result.success
    /\ gp.validationScore = -20
    /\ gp.result.confidence_score = 0

\* LLM calls issued so far by the pipeline: one per stage entered, one per retry
PipelineLlmCalls ==
    (IF gp.maxRetries # 0 THEN 1 ELSE 0) + (IF gp.enhanceStarted THEN 1 ELSE 0)
    + (IF gp.personaBeforeValidation # "none" THEN 1 ELSE 0) + gp.retries

\* C22 (as claimed): every LLM call of the pipeline is a dispatch of the
\* shared queue, with its timestamp in the shared request history.
C22_PipelineThroughLimiter ==
    /\ Len(dispatchLog) = PipelineLlmCalls
    /\ (PipelineLlmCalls > 0 => requestHistory # <<>>)

Answered == gp.handler # "none" /\ gp.pc \in {"done", "answered"}

Answer == postResponse(gp.handler, gp.bodyReadable, gp.result)

\* C26 (as claimed): a POST handler answers 201 with persona and metadata
\* exactly when generatePersona succeeded, 400 with error and metadata when it
\* returned a failure, and 500 exactly when the body could not be read.
C26_HandlerAnswers ==
    Answered =>
        /\ (Answer.status = 201) <=> (gp.bodyReadable /\ gp.result.success)
        /\ (Answer.status = 201) => (Answer.hasPersona /\ Answer.hasMetadata)
        /\ (gp.bodyReadable /\ ~gp.result.success) =>
              (Answer.status = 400 /\ Answer.hasError /\ Answer.hasMetadata)
        /\ (Answer.status = 500) <=> ~gp.bodyReadable

\* C28 (as claimed): after an LLM failure caused by refused credentials or
\* exhausted quota, base generation neither sleeps nor calls the LLM again.
C28_AuthFailureNotRetried ==
    (gp.pc = "base" /\ ro.pc \in {"backoff", "call"}) =>
        ro.lastError.code # "LLM_AUTH_FAILED"

InFlight == {i \in OpIds : calls[i] >= 1 /\ ~IsSettled(i)}

QuotaFree == canMakeRequest(PruneHistory(requestHistory, now), now)

\* C27 (as claimed): an operation that is awaiting its provider or sleeping
\* in its backoff does not hold back the queue: no item stays queued while
\* the quota admits a dispatch and the inter-dispatch delay has passed.
C27_BackoffDoesNotHoldQueue ==
    \A l \in LoopIds :
        (loops[l].pc \in {"call", "backoff"} /\ requestQueue # <<>>) =>
            ~(QuotaFree /\ now >= At(Len(dispatchLog)) + DispatchDelayMs)

\* C29: a dispatch appends exactly one timestamp, the time of the dispatch,
\* to the pruned history, in the step that invokes the operation; while the
\* operation is in flight that timestamp is the last entry of the history;
\* and no other step, a retry attempt included, adds an entry.
C29_OneTimestampPerDispatch ==
    /\ [](\A l \in LoopIds :
            loops[l].pc \in {"call", "backoff"} =>
                /\ requestHistory # <<>>
                /\ requestHistory[Len(requestHistory)] = At(Len(dispatchLog))
                /\ dispatchLog[Len(dispatchLog)].id = loops[l].item)
    /\ [][/\ Len(dispatchLog') = Len(dispatchLog) + 1 =>
                requestHistory' = Append(PruneHistory(requestHistory, now), now)
          /\ dispatchLog' = dispatchLog =>
                Len(requestHistory') <= Len(requestHistory)]_vars

\* the operation is in its second attempt and the history holds its one timestamp
C29_Witness ==
    /\ \E l \in LoopIds : loops[l].pc = "call" /\ loops[l].attempt = 1
    /\ calls[1] = 2
    /\ requestHistory = <<At(1)>>

\* C30: at most one dispatched operation is unsettled, it is the one the
\* drain loop holds, and a dispatch happens only when every operation
\* dispatched before has settled.
C30_OneInFlight ==
    /\ [](/\ Cardinality(InFlight) <= 1
          /\ \A i \in InFlight :
                \E l \in LoopIds : loops[l].pc \in {"call", "backoff"} /\ loops[l].item = i)
    /\ [][Len(dispatchLog') > Len(dispatchLog) => InFlight = {}]_vars

\* an operation sleeps in its backoff while an item waits in the queue that
\* the quota and the inter-dispatch delay would admit
C30_Witness ==
    /\ \E l \in LoopIds : loops[l].pc = "backoff" /\ now >= loops[l].wake
    /\ requestQueue # <<>>
    /\ QuotaFree
    /\ now >= At(Len(dispatchLog)) + DispatchDelayMs

\* C23 (as claimed): the caller's messages are after a send what they were
\* before it, and every send of the same request transmits the same content.
C23_MessagesUnchanged ==
    /\ wire.messages = wire.original
    /\ \A i, j \in 1..Len(wire.sent) : wire.sent[i] = wire.sent[j]

\* C24 (as claimed): a 2xx response with an empty or missing list yields
\* the failure INVALID_RESPONSE, and a success carries at least one choice
\* that the provider sent.
C24_EmptyListIsError ==
    wire.response # "none" =>
        /\ wire.response \in {"empty", "missing"} =>
              (~wire.result.success /\ wire.result.code = "INVALID_RESPONSE")
        /\ wire.result.success => (wire.result.choices >= 1 /\ ~wire.result.fabricated)

C31_NextAvailableAdmissible ==
    LET h == PruneHistory(requestHistory, now)
    IN ~canMakeRequest(h, now) =>
          LET t == nextAvailableTime(h, now)
          IN t > now /\ canMakeRequest(PruneHistory(h, t), t)

\* C32: any two consecutive dispatches are at least 100 ms apart, and so are
\* any two consecutive timestamps of the request history.
C32_InterDispatchDelay ==
    /\ \A k \in 1..(Len(dispatchLog) - 1) : At(k + 1) >= At(k) + DispatchDelayMs
    /\ \A k \in 1..(Len(requestHistory) - 1) :
          requestHistory[k + 1] >= requestHistory[k] + DispatchDelayMs

\* the quota was free and the second dispatch came exactly 100 ms after the first
C32_Witness ==
    /\ Len(dispatchLog) >= 2
    /\ requestsPerMinute >= 2
    /\ At(2) = At(1) + DispatchDelayMs

\* the stages of generatePersona in the order of its text
StageRank(pc) ==
    CASE pc = "idle" -> 0
      [] pc = "base" -> 1
      [] pc = "qloo" -> 2
      [] pc = "enhance" -> 3
      [] pc = "validate" -> 4
      [] OTHER -> 5

\* the persona generateBasePersona returned
BasePersona == baseOperation(gp.baseContent).data

\* C34: the external calls of one generatePersona call come one at a time in
\* the order base generation, enrichment fetch, enhancement, validation: the
\* fetch starts only from base generation with a persona in hand, the
\* enhancement only from a fetch that returned data, validation only when the
\* enrichment branch (if requested) is over, and an LLM call and the fetch are
\* never in flight together.
C34_StagesSequential ==
    [][/\ gp'.pc # gp.pc => StageRank(gp'.pc) > StageRank(gp.pc)
       /\ (gp'.pc = "qloo" /\ gp.pc # "qloo") =>
             /\ gp.pc = "base" /\ ro.pc = "call"
             /\ gp'.persona = baseOperation(gp'.baseContent).data
             /\ gp'.persona \notin {"none", "undefined"}
       /\ (gp'.pc = "enhance" /\ gp.pc # "enhance") =>
             gp.pc = "qloo" /\ gp'.qlooOutcome = "insights"
       /\ (gp'.pc = "validate" /\ gp.pc # "validate") =>
             /\ gp.pc \in {"base", "qloo", "enhance"}
             /\ gp.includeQloo => gp.pc # "base"
             /\ gp.pc = "qloo" => gp'.qlooOutcome # "insights"
       /\ ro'.pc # "idle" => gp'.pc \in {"base", "enhance", "validate"}
       /\ gp'.pc = "qloo" => ro'.pc = "idle"
      ]_vars

\* all four stages were gone through, each LLM stage with a retry
C34_Witness ==
    /\ GpDone /\ gp.result.success
    /\ gp.includeQloo /\ gp.validate /\ gp.enhanceStarted
    /\ gp.personaBeforeValidation # "none"
    /\ gp.retries >= 3

\* C35: when the enhancement answer cannot be parsed, or the enhancement call
\* fails on all its attempts, the persona taken into validation and into the
\* final step is the one base generation returned, and generatePersona succeeds.
C35_EnhancementNoop ==
    ("enhance" \in gp.failures /\ gp.pc \in {"validate", "done"}) =>
        /\ gp.validate => gp.personaBeforeValidation = BasePersona
        /\ gp.pc = "validate" => gp.persona = BasePersona
        /\ gp.pc = "done" =>
              /\ gp.result.success
              /\ gp.result.persona \in {BasePersona, "improved"}
              /\ gp.result.persona = "improved" => gp.validate /\ gp.validationScore # Undefined

\* an enhancement whose answer was not JSON, no validation: the base persona is returned
C35_Witness ==
    /\ GpDone /\ gp.result.success
    /\ "enhance" \in gp.failures
    /\ ~gp.validate
    /\ gp.result.persona = BasePersona

\* the enhancement call failed three times, validation ran on the base persona
C35_WitnessAllFailed ==
    /\ gp.pc = "validate"
    /\ "enhance" \in gp.failures
    /\ gp.retries >= enhanceRetries
    /\ gp.personaBeforeValidation = BasePersona

\* maxRetries as the claim has it
C39_MaxRetries ==
    IF gp.options.retryAttempts > 0 THEN gp.options.retryAttempts ELSE 3

\* C39: generatePersona, once called, resolves with a result, every awaited call
\* settling; it makes at most maxRetries + 1 base generation calls, 3 enhancement
\* calls and 3 validation calls, maxRetries being options.retryAttempts when
\* positive and 3 otherwise.
C39_AlwaysResolves ==
    /\ [](/\ gp.pc = "base" => ro.calls <= C39_MaxRetries + 1
          /\ gp.pc \in {"enhance", "validate"} => ro.calls <= 3
          /\ gp.pc \in {"idle", "qloo", "done", "answered"} => ro.calls = 0
          /\ gp.pc = "done" => gp.result.hasMetadata)
    /\ []<>(gp.pc \in {"idle", "done", "answered"})

\* the base generation of a call without options.retryAttempts is at its 4th call
C39_Witness ==
    /\ gp.pc = "base" /\ gp.options.retryAttempts = 0 /\ ro.calls = 4

\* the validation is at its 3rd call
C39_WitnessValidation ==
    /\ gp.pc = "validate" /\ ro.calls = 3

\* C40: in a successful result the persona's id, confidence_score, qloo_insights
\* and generation_timestamp are those of the final step, whatever fields of
\* these names the LLM-produced persona had, and qloo_insights and
\* metadata.qloo_insights_included tell whether the fetch returned data,
\* whether or not the enhancement then succeeded.
C40_FinalizeFields ==
    (GpDone /\ gp.result.success) =>
        /\ \A inPersona \in BOOLEAN : gp.result.reservedFrom[inPersona] = "finalize"
        /\ gp.result.metadata.qloo_insights_included = (gp.qlooOutcome = "insights")
        /\ (gp.result.qloo_insights # "null") = (gp.qlooOutcome = "insights")
        /\ gp.result.confidence_score \in
              {calculateConfidenceScore(pts, gp.qlooInsights, gp.validationScore) :
                  pts \in CompletenessPoints}

\* data was fetched and the enhancement failed; the returned persona's fields
\* are the final step's also where the LLM's persona had fields of these names
C40_Witness ==
    /\ GpDone /\ gp.result.success
    /\ gp.result.reservedFrom[TRUE] = "finalize"
    /\ gp.qlooOutcome = "insights"
    /\ "enhance" \in gp.failures
    /\ gp.result.metadata.qloo_insights_included

\* the text without its line breaks
StripNl(text) == SelectSeq(text, LAMBDA x : x # Nl)

RECURSIVE Concat(_)
\* the texts one after the other
Concat(texts) == IF texts = <<>> THEN <<>> ELSE texts[1] \o Concat(Tail(texts))

\* C37: each body sent to Gemini has no system entry and one entry per
\* non-system message of the request, in order, assistant as 'model' and any
\* other role as 'user'; the first entry's text is made of all system contents,
\* in order, followed by the first non-system message's content, the other
\* entries have their message's content; and generationConfig carries the
\* temperature and max_tokens the transformation was given.
C37_GeminiBody ==
    wire.provider = "gemini" =>
        \A n \in 1..Len(wire.sent) :
            LET messages == wire.sentData[n]
                body == wire.sent[n]
                sys == SelectSeq(messages, LAMBDA m : m.role = "system")
                conv == SelectSeq(messages, LAMBDA m : m.role # "system")
                data == requestData(wire.options)
            IN /\ Len(body) = Len(conv)
               /\ \A k \in 1..Len(body) :
                     /\ body[k].role = (IF conv[k].role = "assistant" THEN "model" ELSE "user")
                     /\ body[k].role # "system"
                     /\ k > 1 => body[k].text = conv[k].content
               /\ Len(body) >= 1 =>
                     StripNl(body[1].text) =
                        StripNl(Concat([k \in 1..Len(sys) |-> sys[k].content]) \o conv[1].content)
               /\ wire.sentConfig[n].temperature = data.temperature
               /\ wire.sentConfig[n].maxOutputTokens = data.max_tokens

\* two system messages and a user message were sent with a temperature and a limit
C37_Witness ==
    /\ wire.provider = "gemini"
    /\ Len(wire.sent) >= 1
    /\ Len(wire.original) = 3
    /\ wire.original[1].role = "system" /\ wire.original[2].role = "system"
    /\ wire.original[3].role = "user"
    /\ wire.options = [temperature |-> 3, max_tokens |-> 500]
    /\ wire.sentConfig[1] = [temperature |-> 3, maxOutputTokens |-> 500]

\* an assistant message was sent as 'model'
C37_WitnessModel ==
    /\ wire.provider = "gemini"
    /\ Len(wire.sent) >= 1
    /\ \E k \in 1..Len(wire.sent[1]) : wire.sent[1][k].role = "model"

\* C38 (as claimed): the usage of a successful response has total_tokens =
\* prompt_tokens + completion_tokens, a counter the provider did not give
\* counting as 0.
C38_UsageSummed ==
    wire.result.success =>
        /\ wire.usage.prompt = OrZero(wire.rawUsage.prompt)
        /\ wire.usage.completion = OrZero(wire.rawUsage.completion)
        /\ wire.usage.total = wire.usage.prompt + wire.usage.completion

\* d_n of the claim: min(baseDelay * exponentialBase^n, maxDelay)
C33_Delay(n) ==
    IF baseDelay * Pow(exponentialBase, n) < maxDelay
    THEN baseDelay * Pow(exponentialBase, n) ELSE maxDelay

\* C33: the sleep before retry n lies between d_n and d_n * (1 + jitterFactor),
\* jitterFactor being 1 / JitterDivisor; it is not below d_(n-1) and never
\* above maxDelay * (1 + jitterFactor).
C33_BackoffWindow ==
    calc.fn = "delay" =>
        LET n == calc.attempt
            sleep == calc.out
        IN /\ C33_Delay(n) <= sleep
           /\ sleep * JitterDivisor <= C33_Delay(n) * (JitterDivisor + 1)
           /\ n >= 1 => sleep >= C33_Delay(n - 1)
           /\ sleep * JitterDivisor <= maxDelay * (JitterDivisor + 1)

\* a capped delay with jitter: attempt 5, whose uncapped delay is above maxDelay
C33_Witness ==
    /\ calc.fn = "delay"
    /\ baseDelay * Pow(exponentialBase, calc.attempt) > maxDelay
    /\ calc.out > maxDelay

\* an uncapped delay without jitter
C33_WitnessFirst ==
    /\ calc.fn = "delay" /\ calc.attempt = 0 /\ calc.out = baseDelay

\* h of the claim
C36_Heuristic(persona, qlooInsights) ==
    70 + (IF persona.demographics >= 6 THEN 10 ELSE 0)
       + (IF persona.values >= 1 THEN 5 ELSE 0)
       + (IF persona.daily_routine THEN 5 ELSE 0)
       + (IF persona.best_channels >= 1 THEN 5 ELSE 0)
       + (IF qlooInsights # "null" THEN 10 ELSE 0)

\* C36 (as claimed): the confidence score is h clamped to 0..100 without a
\* validation score and round((h + 10 v) / 2) clamped with validation score v,
\* h = 70 + 10 for demographics of 6 fields or more + 5 each for non-empty
\* psychographics.values, daily_routine and best_channels + 10 for enrichment data.
C36_ConfidenceFormula ==
    calc.fn = "score" =>
        LET h == C36_Heuristic(calc.persona, calc.qlooInsights)
            v == calc.validationScore
            raw == IF v = Undefined THEN h ELSE (h + 10 * v + 1) \div 2
        IN calc.out = (IF raw > 100 THEN 100 ELSE IF raw < 0 THEN 0 ELSE raw)

====
